---- MODULE Spec2Model ----
(***************************************************************************)
(* HRDS_Server (src/server.js): an Express REST API that uses a Google     *)
(* spreadsheet as its record store.  Three sheets are modelled as          *)
(* sequences of rows: MAIN_DATA (records), USER_LIST (users) and           *)
(* LOG_ACTIVITY (audit).  Every request is a process; each awaited         *)
(* backend call of its handler is one step, so that requests interleave    *)
(* exactly where the event loop lets them.  Every backend call may fail.   *)
(***************************************************************************)
EXTENDS Integers, Naturals, Sequences, FiniteSets, TLC

VARIABLES records, users, audit, req, clock

vars == <<records, users, audit, req, clock>>

(* ------------------------------ bounds -------------------------------- *)

\* number of requests the clients send in one behaviour when requests are
\* served concurrently
MaxReqs == 2

\* number of requests in one behaviour when they are handled one at a time
MaxSeqReqs == 3

\* the largest row number the conversions have to render
MaxNum == 6

\* seconds of the wall clock that jwt.verify and Date.now() read
MaxTime == 2

(* ------------------------------ inputs -------------------------------- *)

\* the request slots: two clients that may be served concurrently
Procs == {1, 2}

\* the identities Google can vouch for at login; c@x is in no users row
Identities ==
  {[email |-> "a@x", name |-> "Ann"], [email |-> "b@x", name |-> "Bob"],
   [email |-> "c@x", name |-> "Cy"]}

\* the identity the session credentials of the protected requests carry
Actor == [email |-> "a@x", name |-> "Ann"]

\* the raw identity assertion (Google id token) of an identity
IdToken(user) == "g." \o user.email

Tokens == {IdToken(u) : u \in Identities}

\* id path parameters (strings, as Express delivers them)
RouteIds == {"1", "2"}

Payload1 ==
  [fullName |-> "A", populationId |-> "P1", familyId |-> "F1", gender |-> "G1",
   dateOfBirth |-> "D1", placeOfBirth |-> "B1", religion |-> "R1", bloodType |-> "O"]

Payload2 ==
  [fullName |-> "Z", populationId |-> "P2", familyId |-> "F2", gender |-> "G2",
   dateOfBirth |-> "D2", placeOfBirth |-> "B2", religion |-> "R2", bloodType |-> "AB"]

Payloads == {Payload1, Payload2}

NoPayload == [fullName |-> "", populationId |-> "", familyId |-> "", gender |-> "",
   dateOfBirth |-> "", placeOfBirth |-> "", religion |-> "", bloodType |-> ""]

\* the users sheet as the administrator provisioned it (columns A..G;
\* column C is the e-mail the login looks up)
UserRowA == <<"", "Ann0", "a@x", "cred0", "sess0", "admin", "">>

UserRowB == <<"", "Bob0", "b@x", "cred0", "sess0", "user", "">>

InitialUsers == {<<UserRowA, UserRowB>>}

(* -------------------------- cell conversions -------------------------- *)

Digits == <<"0", "1", "2", "3", "4", "5", "6", "7", "8", "9">>

\* how values.get renders a numeric cell (FORMATTED_VALUE)
RECURSIVE Str(_)
Str(n) == IF n < 10 THEN Digits[n + 1] ELSE Str(n \div 10) \o Digits[(n % 10) + 1]

\* parseInt(s, 10) || 1 of getLastRowNumber: NaN and 0 are falsy
ParseIntOr1(s) ==
  IF \E n \in 1..MaxNum : Str(n) = s
  THEN CHOOSE n \in 1..MaxNum : Str(n) = s
  ELSE 1

\* valueInputOption USER_ENTERED: a decimal string becomes a number
UserEntered(s) ==
  IF \E n \in 0..MaxNum : Str(n) = s
  THEN CHOOSE n \in 0..MaxNum : Str(n) = s
  ELSE s

\* the id cell of a row as a range read returns it
IdCell(row) == IF row[1] \in Nat THEN Str(row[1]) ELSE row[1]

(* ---------------------------- pure helpers ---------------------------- *)

\* currentDateTime(): the request time, rendered
currentDateTime == "t" \o Str(clock)

\* getLastRowNumber(range): column A of the sheet, or no answer (ok = FALSE)
getLastRowNumber(sheet, ok) ==
  IF ~ok THEN 0
  ELSE IF Len(sheet) = 0 THEN 0
  ELSE ParseIntOr1(IF sheet[Len(sheet)][1] \in Nat
                   THEN Str(sheet[Len(sheet)][1]) ELSE sheet[Len(sheet)][1])

\* rows.findIndex((row) => row[0] === id), 0-based, -1 when absent
FindIndexById(rows, id) ==
  IF \E i \in 1..Len(rows) : IdCell(rows[i]) = id
  THEN (CHOOSE i \in 1..Len(rows) :
          /\ IdCell(rows[i]) = id
          /\ \A j \in 1..(i - 1) : IdCell(rows[j]) # id) - 1
  ELSE -1

\* users.findIndex((u) => u[2] === user.email)
FindIndexByEmail(rows, email) ==
  IF \E i \in 1..Len(rows) : rows[i][3] = email
  THEN (CHOOSE i \in 1..Len(rows) :
          /\ rows[i][3] = email
          /\ \A j \in 1..(i - 1) : rows[j][3] # email) - 1
  ELSE -1

\* jwt.verify: throws on a bad signature and on exp <= clock
JwtVerify(sigOK, exp, tVerify) == sigOK /\ tVerify < exp

\* jwt.sign({email, name}, secret, {expiresIn: "1h"})
JwtSign(email, name) == "jwt." \o email \o "." \o name \o "." \o Str(clock)

\* the authenticate middleware: what it sends and whether it calls next()
authenticate(hasToken, sigOK, exp, tVerify, tNow) ==
  IF ~hasToken THEN [sent |-> 401, next |-> FALSE]
  ELSE IF ~JwtVerify(sigOK, exp, tVerify) THEN [sent |-> 401, next |-> FALSE]
  ELSE IF exp < tNow THEN [sent |-> 401, next |-> TRUE]
  ELSE [sent |-> 0, next |-> TRUE]

\* the row create builds
NewRow(n, d) ==
  <<n, d.fullName, d.populationId, d.familyId, d.gender, d.dateOfBirth,
    d.placeOfBirth, d.religion, d.bloodType, "active", currentDateTime>>

\* a slip in update: the sheet row number is written as the id
UpdatedRowNextId(id, d) ==
  <<UserEntered(id) + 1, d.fullName, d.populationId, d.familyId, d.gender,
    d.dateOfBirth, d.placeOfBirth, d.religion, d.bloodType, "active",
    currentDateTime>>

\* a slip in the column order of update: status and timestamp swapped
UpdatedRowSwapped(id, d) ==
  <<UserEntered(id), d.fullName, d.populationId, d.familyId, d.gender,
    d.dateOfBirth, d.placeOfBirth, d.religion, d.bloodType, currentDateTime,
    "active">>

\* the row update builds (the id is the path parameter, USER_ENTERED)
UpdatedRow(id, d) ==
  <<UserEntered(id), d.fullName, d.populationId, d.familyId, d.gender,
    d.dateOfBirth, d.placeOfBirth, d.religion, d.bloodType, "active",
    currentDateTime>>

\* the marker soft-delete writes
InactiveMarker == "tidak aktif"

\* soft-delete overwrites MAIN_DATA!K{rowIndex + 2}: column K is cell 11
SoftDeletedRow(row) == [row EXCEPT ![11] = InactiveMarker]

\* a slip in the sync: the known user's row is pushed again
SyncedUsersPushed(rows, userIndex, name, token, sessionToken) ==
  Append(rows, <<"", name, rows[userIndex + 1][3], token, sessionToken, "user", "">>)

\* login of a known user: cells B, D, E, F of the row read
SyncedUsers(rows, userIndex, name, token, sessionToken) ==
  [rows EXCEPT ![userIndex + 1] =
     [@ EXCEPT ![2] = name, ![4] = token, ![5] = sessionToken, ![6] = "user"]]

\* values.update of a range starting at row 2 with the given rows
OverwriteFromTop(sheet, rows) ==
  [i \in 1..(IF Len(rows) > Len(sheet) THEN Len(rows) ELSE Len(sheet)) |->
     IF i <= Len(rows) THEN rows[i] ELSE sheet[i]]

\* the audit row logActivity builds
LogEntry(n, user, action, details) ==
  <<n, user.name, user.email, action, details, currentDateTime>>

\* GET /data: the projection of one row
ListItem(row) ==
  [id |-> IdCell(row), fullName |-> row[2], populationId |-> row[3],
   familyId |-> row[4], gender |-> row[5], dateOfBirth |-> row[6],
   placeOfBirth |-> row[7], religion |-> row[8], bloodType |-> row[9],
   lastUpdated |-> row[10]]

ListData(rows) == [i \in 1..Len(rows) |-> ListItem(rows[i])]

(* --------------------------- request records -------------------------- *)

NoUser == [email |-> "", name |-> ""]

\* A request: its inputs (kind, id, body, user, token), the handler's locals
\* (rowIndex, newRowNumber, logRowNumber, sessionToken, rows), the responses
\* (mwSent by authenticate, status by the handler), and a record of what it
\* did (rowsAtScan, auditAtAppend, readOk, absent, wasInactive,
\* repeatLogin, nWrites, nAudit, failed, lateWrites, nextCalled, expired,
\* data).
IdleReq ==
  [kind |-> "none", pc |-> "idle", id |-> "", body |-> NoPayload,
   user |-> NoUser, token |-> "", sessionToken |-> "",
   mwSent |-> 0, nextCalled |-> FALSE, expired |-> FALSE, status |-> 0,
   rowIndex |-> -1, newRowNumber |-> 0, logRowNumber |-> 0,
   rows |-> <<>>, data |-> <<>>,
   rowsAtScan |-> 0, auditAtAppend |-> 0, readOk |-> FALSE, absent |-> FALSE,
   wasInactive |-> FALSE, repeatLogin |-> FALSE, nWrites |-> 0, nAudit |-> 0,
   failed |-> FALSE, lateWrites |-> 0]

\* the record of a backend call of the request that failed
Failed(r) == [r EXCEPT !.failed = TRUE]

\* the record of a backend write the request made
Wrote(r) == [r EXCEPT !.lateWrites = IF r.failed THEN @ + 1 ELSE @]

\* the status the client receives: the first response sent
Answer(r) == IF r.mwSent # 0 THEN r.mwSent ELSE r.status

Free(p) == req[p].pc \in {"idle", "done"}

\* a new request is served in the first free slot (slots are only names)
Slot(p) == Free(p) /\ \A q \in Procs : q < p => ~Free(q)

Quiet(p) == \A q \in Procs \ {p} : Free(q)

Success(r) == Answer(r) \in {200, 201}

\* status of a handler-level failure: 401 for login, 500 elsewhere
FailStatus(kind) == IF kind = "login" THEN 401 ELSE 500

OkStatus(kind) == IF kind = "create" THEN 201 ELSE 200

FirstPc(kind) ==
  CASE kind = "create" -> "scan"
    [] kind = "update" -> "read"
    [] kind = "delete" -> "read"
    [] kind = "list"   -> "read"
    [] OTHER           -> "done"

(* ------------------------------- Init --------------------------------- *)

Init ==
  /\ records = <<>>
  /\ users \in InitialUsers
  /\ audit = <<>>
  /\ req = [p \in Procs |-> IdleReq]
  /\ clock = 0

(* ------------------------------ actions ------------------------------- *)

\* the bearer credentials a client may present and the two clock readings
\* of authenticate (jwt.verify's, then Date.now()'s)
Credentials ==
  {[hasToken |-> FALSE, sigOK |-> FALSE, exp |-> 0, tVerify |-> 0, tNow |-> 0],
   [hasToken |-> TRUE, sigOK |-> FALSE, exp |-> 0, tVerify |-> 0, tNow |-> 0]}
  \cup {c \in [hasToken : {TRUE}, sigOK : {TRUE}, exp : 1..(MaxTime - 1),
               tVerify : 0..MaxTime, tNow : 0..MaxTime] : c.tVerify <= c.tNow}

\* the protected requests a client may send
Requests ==
  [kind : {"create"}, id : {""}, body : Payloads]
  \cup [kind : {"update"}, id : RouteIds, body : {Payload2}]
  \cup [kind : {"delete"}, id : RouteIds, body : {NoPayload}]
  \cup [kind : {"list", "auth"}, id : {""}, body : {NoPayload}]

\* a protected request arrives: authenticate runs, then (when it calls
\* next) the handler starts; POST /authenticate answers at once
Protected(p) ==
  /\ Slot(p)
  /\ \E c \in Credentials, q \in Requests :
       LET mw == authenticate(c.hasToken, c.sigOK, c.exp, c.tVerify, c.tNow)
           r0 == [IdleReq EXCEPT
                    !.kind = q.kind, !.id = q.id, !.body = q.body,
                    !.mwSent = mw.sent,
                    !.nextCalled = mw.next,
                    !.expired = c.hasToken /\ c.sigOK /\ c.exp < c.tNow,
                    !.user = IF mw.next THEN Actor ELSE NoUser]
       IN req' = [req EXCEPT ![p] =
            IF ~mw.next THEN [r0 EXCEPT !.pc = "done", !.id = "", !.body = NoPayload]
            ELSE IF q.kind = "auth" THEN [r0 EXCEPT !.pc = "done", !.status = 200]
            ELSE [r0 EXCEPT !.pc = FirstPc(q.kind)]]
  /\ clock' = clock + 1
  /\ UNCHANGED <<records, users, audit>>

\* POST /data/entry, line 222: getLastRowNumber("MAIN_DATA!A2:A") + 1
CreateScan(p) ==
  /\ req[p].kind = "create" /\ req[p].pc = "scan"
  /\ \E ok \in BOOLEAN :
       req' = [req EXCEPT ![p] =
                 [(IF ok THEN @ ELSE Failed(@)) EXCEPT
                           !.newRowNumber = getLastRowNumber(records, ok) + 1,
                           !.rowsAtScan = Len(records),
                           !.readOk = ok,
                           !.pc = "append"]]
  /\ UNCHANGED <<records, users, audit, clock>>

\* a different create: the id is taken from the table at the append
CreateAppendCounted(p) ==
  /\ req[p].kind = "create" /\ req[p].pc = "append"
  /\ \/ /\ records' = Append(records, NewRow(Len(records) + 1, req[p].body))
        /\ req' = [req EXCEPT ![p] =
                     [Wrote(@) EXCEPT !.pc = "logscan", !.nWrites = @ + 1,
                                      !.rowIndex = Len(records)]]
     \/ /\ req' = [req EXCEPT ![p] = [Failed(@) EXCEPT !.pc = "done", !.status = 500]]
        /\ UNCHANGED records
  /\ UNCHANGED <<users, audit, clock>>

\* POST /data/entry, lines 225-244: build the row and append it
CreateAppend(p) ==
  /\ req[p].kind = "create" /\ req[p].pc = "append"
  /\ \/ /\ records' = Append(records, NewRow(req[p].newRowNumber, req[p].body))
        /\ req' = [req EXCEPT ![p] =
                     [Wrote(@) EXCEPT !.pc = "logscan", !.nWrites = @ + 1,
                                      !.rowIndex = Len(records)]]
     \/ /\ req' = [req EXCEPT ![p] = [Failed(@) EXCEPT !.pc = "done", !.status = 500]]
        /\ UNCHANGED records
  /\ UNCHANGED <<users, audit, clock>>

\* logActivity, line 167: getLastRowNumber("LOG_ACTIVITY!A2:A") + 1
LogScan(p) ==
  /\ req[p].pc = "logscan"
  /\ \E ok \in BOOLEAN :
       req' = [req EXCEPT ![p] =
                 [(IF ok THEN @ ELSE Failed(@)) EXCEPT
                           !.logRowNumber = getLastRowNumber(audit, ok) + 1,
                           !.pc = "logappend"]]
  /\ UNCHANGED <<records, users, audit, clock>>

\* what each handler passes to logActivity as action and details
LogAction(r) ==
  CASE r.kind = "create" -> "CREATE"
    [] r.kind = "update" -> "UPDATE"
    [] r.kind = "delete" -> "DELETE"
    [] OTHER             -> "LOGIN"

LogDetails(r) ==
  CASE r.kind = "create" -> <<"data", r.body>>
    [] r.kind = "update" -> <<"id", r.id, "updates", r.body>>
    [] r.kind = "delete" -> <<"id", r.id>>
    [] OTHER             -> <<"User Login Attempt">>

\* a slip in logActivity: the failure is logged and swallowed
AfterLogSwallowed(r, logged) ==
  [r EXCEPT !.pc = "done", !.status = OkStatus(r.kind)]

\* what the handler does when logActivity returns or throws: the success
\* response after it, or the catch block's failure response
AfterLog(r, logged) ==
  IF logged
  THEN [r EXCEPT !.pc = "done", !.status = OkStatus(r.kind)]
  ELSE [r EXCEPT !.pc = "done", !.status = FailStatus(r.kind)]

\* a slip in logActivity: the entry is written at the row of its number
LogAppendAtRow(p) ==
  /\ req[p].pc = "logappend"
  /\ \/ /\ audit' =
             LET e == LogEntry(req[p].logRowNumber, req[p].user,
                               LogAction(req[p]), LogDetails(req[p]))
             IN IF req[p].logRowNumber <= Len(audit)
                THEN [audit EXCEPT ![req[p].logRowNumber] = e]
                ELSE Append(audit, e)
        /\ req' = [req EXCEPT ![p] =
                     [AfterLog(Wrote(@), TRUE) EXCEPT !.nAudit = @ + 1,
                                                      !.auditAtAppend = Len(audit)]]
     \/ /\ req' = [req EXCEPT ![p] = AfterLog(Failed(@), FALSE)]
        /\ UNCHANGED audit
  /\ UNCHANGED <<records, users, clock>>

\* a different handler: a failed audit append undoes the primary write
LogAppendRollback(p) ==
  /\ req[p].pc = "logappend"
  /\ \/ /\ audit' = Append(audit, LogEntry(req[p].logRowNumber, req[p].user,
                                           LogAction(req[p]), LogDetails(req[p])))
        /\ req' = [req EXCEPT ![p] =
                     [AfterLog(Wrote(@), TRUE) EXCEPT !.nAudit = @ + 1,
                                                      !.auditAtAppend = Len(audit)]]
        /\ UNCHANGED records
     \/ /\ req' = [req EXCEPT ![p] = AfterLog(Failed(@), FALSE)]
        /\ records' =
             IF req[p].kind = "create" THEN SubSeq(records, 1, Len(records) - 1)
             ELSE IF req[p].kind \in {"update", "delete"}
             THEN [records EXCEPT ![req[p].rowIndex + 1] =
                     req[p].rows[req[p].rowIndex + 1]]
             ELSE records
        /\ UNCHANGED audit
  /\ UNCHANGED <<users, clock>>

\* logActivity, lines 168-186, and the handler's lines after it
LogAppend(p) ==
  /\ req[p].pc = "logappend"
  /\ \/ /\ audit' = Append(audit, LogEntry(req[p].logRowNumber, req[p].user,
                                           LogAction(req[p]), LogDetails(req[p])))
        /\ req' = [req EXCEPT ![p] =
                     [AfterLog(Wrote(@), TRUE) EXCEPT !.nAudit = @ + 1,
                                                      !.auditAtAppend = Len(audit)]]
     \/ /\ req' = [req EXCEPT ![p] = AfterLog(Failed(@), FALSE)]
        /\ UNCHANGED audit
  /\ UNCHANGED <<records, users, clock>>

\* a slip in the lookup: the not-found answer does not end the handler
AfterLookupNoReturn(r, rows, idx) ==
  IF idx = -1
  THEN [r EXCEPT !.pc = "logscan", !.status = 404, !.rows = rows,
                 !.readOk = TRUE, !.absent = TRUE]
  ELSE [r EXCEPT !.pc = "write", !.rows = rows, !.rowIndex = idx,
                 !.readOk = TRUE]

\* the lookup of update and soft-delete: 404 when no row holds the id
AfterLookup(r, rows, idx) ==
  IF idx = -1
  THEN [r EXCEPT !.pc = "done", !.status = 404, !.rows = rows,
                 !.readOk = TRUE, !.absent = TRUE]
  ELSE [r EXCEPT !.pc = "write", !.rows = rows, !.rowIndex = idx,
                 !.readOk = TRUE]

\* PUT /dataupdate/:id, lines 267-277: read all rows, find the row
UpdateRead(p) ==
  /\ req[p].kind = "update" /\ req[p].pc = "read"
  /\ \/ req' = [req EXCEPT ![p] = AfterLookup(@, records, FindIndexById(records, @.id))]
     \/ req' = [req EXCEPT ![p] =
                  [Failed(@) EXCEPT !.pc = "done", !.status = 500,
                            !.absent = FindIndexById(records, req[p].id) = -1]]
  /\ UNCHANGED <<records, users, audit, clock>>

\* PUT /dataupdate/:id, lines 280-302: overwrite row rowIndex + 2
UpdateWrite(p) ==
  /\ req[p].kind = "update" /\ req[p].pc = "write"
  /\ \/ /\ records' = [records EXCEPT ![req[p].rowIndex + 1] =
                         UpdatedRow(req[p].id, req[p].body)]
        /\ req' = [req EXCEPT ![p] =
                     [Wrote(@) EXCEPT !.pc = "logscan", !.nWrites = @ + 1,
                               !.wasInactive =
                                  records[req[p].rowIndex + 1][11] = InactiveMarker]]
     \/ /\ req' = [req EXCEPT ![p] = [Failed(@) EXCEPT !.pc = "done", !.status = 500]]
        /\ UNCHANGED records
  /\ UNCHANGED <<users, audit, clock>>

\* PUT /data/:id, lines 320-330: read all rows, find the row
DeleteRead(p) ==
  /\ req[p].kind = "delete" /\ req[p].pc = "read"
  /\ \/ req' = [req EXCEPT ![p] = AfterLookup(@, records, FindIndexById(records, @.id))]
     \/ req' = [req EXCEPT ![p] =
                  [Failed(@) EXCEPT !.pc = "done", !.status = 500,
                            !.absent = FindIndexById(records, req[p].id) = -1]]
  /\ UNCHANGED <<records, users, audit, clock>>

\* PUT /data/:id, lines 333-338: overwrite the one cell K{rowIndex + 2}.
\* The request body carries the marker as a bare string, not as rows; the
\* backend either takes it as the cell's value or refuses the call.
DeleteWrite(p) ==
  /\ req[p].kind = "delete" /\ req[p].pc = "write"
  /\ \/ /\ records' = [records EXCEPT ![req[p].rowIndex + 1] = SoftDeletedRow(@)]
        /\ req' = [req EXCEPT ![p] =
                     [Wrote(@) EXCEPT !.pc = "logscan", !.nWrites = @ + 1]]
     \/ /\ req' = [req EXCEPT ![p] = [Failed(@) EXCEPT !.pc = "done", !.status = 500]]
        /\ UNCHANGED records
  /\ UNCHANGED <<users, audit, clock>>

\* GET /data, lines 193-216
ListRead(p) ==
  /\ req[p].kind = "list" /\ req[p].pc = "read"
  /\ \/ req' = [req EXCEPT ![p] =
                  [@ EXCEPT !.pc = "done", !.status = 200, !.readOk = TRUE,
                            !.data = ListData(records)]]
     \/ req' = [req EXCEPT ![p] = [Failed(@) EXCEPT !.pc = "done", !.status = 500]]
  /\ UNCHANGED <<records, users, audit, clock>>

\* POST /auth/google, lines 74-89: verifyIdToken and the identity it yields
LoginVerify(p) ==
  /\ Slot(p)
  /\ \/ \E user \in Identities :
          req' = [req EXCEPT ![p] =
                    [IdleReq EXCEPT !.kind = "login", !.pc = "lread",
                                    !.token = IdToken(user), !.user = user]]
     \/ req' = [req EXCEPT ![p] =
                  [IdleReq EXCEPT !.kind = "login", !.pc = "done", !.token = "bad",
                                  !.status = 401]]
  /\ clock' = clock + 1
  /\ UNCHANGED <<records, users, audit>>

\* POST /auth/google, lines 108-117: the rows to write back.  The branch for
\* an unknown e-mail reads the undeclared name `credentials` and throws.
SyncThrows(userIndex) == userIndex = -1

\* POST /auth/google, lines 92-117: read USER_LIST, find the row, sign
LoginRead(p) ==
  /\ req[p].kind = "login" /\ req[p].pc = "lread"
  /\ \/ LET idx == FindIndexByEmail(users, req[p].user.email)
            sess == JwtSign(req[p].user.email, req[p].user.name)
        IN req' = [req EXCEPT ![p] =
             IF SyncThrows(idx)
             THEN [@ EXCEPT !.pc = "done", !.status = 401, !.readOk = TRUE,
                            !.absent = TRUE, !.sessionToken = sess]
             ELSE [@ EXCEPT !.pc = "lwrite", !.readOk = TRUE, !.rowIndex = idx,
                            !.repeatLogin = users[idx + 1][4] \in Tokens,
                            !.sessionToken = sess,
                            !.rows = SyncedUsers(users, idx, req[p].user.name,
                                                 req[p].token, sess)]]
     \/ req' = [req EXCEPT ![p] = [Failed(@) EXCEPT !.pc = "done", !.status = 401]]
  /\ UNCHANGED <<records, users, audit, clock>>

\* POST /auth/google, lines 119-124: write the whole table back
LoginWrite(p) ==
  /\ req[p].kind = "login" /\ req[p].pc = "lwrite"
  /\ \/ /\ users' = OverwriteFromTop(users, req[p].rows)
        /\ req' = [req EXCEPT ![p] =
                     [Wrote(@) EXCEPT !.pc = "logscan", !.nWrites = @ + 1]]
     \/ /\ req' = [req EXCEPT ![p] = [Failed(@) EXCEPT !.pc = "done", !.status = 401]]
        /\ UNCHANGED users
  /\ UNCHANGED <<records, audit, clock>>

Step(p) ==
  \/ CreateScan(p)
  \/ CreateAppend(p)
  \/ UpdateRead(p)
  \/ UpdateWrite(p)
  \/ DeleteRead(p)
  \/ DeleteWrite(p)
  \/ ListRead(p)
  \/ LoginRead(p)
  \/ LoginWrite(p)
  \/ LogScan(p)
  \/ LogAppend(p)

\* requests are served concurrently: any interleaving of their steps
Next ==
  \E p \in Procs :
    \/ clock < MaxReqs /\ Protected(p)
    \/ clock < MaxReqs /\ LoginVerify(p)
    \/ Step(p)

Spec == Init /\ [][Next]_vars

\* requests are handled one at a time: a request arrives only when no other
\* request is in flight
SeqNext ==
  \E p \in Procs :
    \/ clock < MaxSeqReqs /\ Quiet(p) /\ Protected(p)
    \/ clock < MaxSeqReqs /\ Quiet(p) /\ LoginVerify(p)
    \/ Step(p)

SeqSpec == Init /\ [][SeqNext]_vars

(* ------------------------------ claims -------------------------------- *)

Mutations == {"create", "update", "delete"}

Finished(p, kind) == req[p].kind = kind /\ req[p].pc = "done"

\* C1 (as claimed): every create answered 201 wrote the id 1 + the number of
\* rows the table had when the id column was scanned, and no row that was
\* soft-deleted before shares its id with the created row.
C1_IdIsRowCountPlusOne ==
  \A p \in Procs :
    (Finished(p, "create") /\ Answer(req[p]) = 201) =>
      /\ records[req[p].rowIndex + 1][1] = req[p].rowsAtScan + 1
      /\ \A i \in 1..req[p].rowIndex :
           records[i][11] = InactiveMarker =>
             records[i][1] # records[req[p].rowIndex + 1][1]

\* C2 (as claimed): with requests handled one at a time, the row at data
\* position k holds id k, so no two rows hold the same id.
C2_IdsUniqueAndPositional ==
  \A k \in 1..Len(records) : records[k][1] = k

\* C3 (as claimed): authenticate either sends 401 and the handler never
\* runs, or calls the handler without sending; a validly signed credential
\* whose expiry is in the past gets the first outcome and changes nothing.
C3_AuthenticateExclusive ==
  \A p \in Procs :
    req[p].kind \in Mutations \cup {"list", "auth"} =>
      /\ (req[p].mwSent = 401) # req[p].nextCalled
      /\ req[p].expired =>
           /\ req[p].mwSent = 401 /\ ~req[p].nextCalled
           /\ req[p].nWrites = 0 /\ req[p].nAudit = 0

\* C4: an update or soft-delete whose id matches no row of the records table
\* writes nothing to the records table and appends no audit entry; when its
\* read of the table returned, the handler answers 404, which is the status
\* the client receives from a request the middleware admitted.
C4_UnknownIdNotFound ==
  \A p \in Procs :
    (req[p].kind \in {"update", "delete"} /\ req[p].absent) =>
      /\ req[p].nWrites = 0
      /\ req[p].nAudit = 0
      /\ req[p].pc = "done"
      /\ req[p].readOk => req[p].status = 404
      /\ (req[p].readOk /\ req[p].mwSent = 0) => Answer(req[p]) = 404

\* C4 witness: an update of an id no row holds, on a table that has rows,
\* answered 404
C4_Witness ==
  \E p \in Procs :
    /\ Finished(p, "update") /\ req[p].absent /\ req[p].readOk
    /\ Len(req[p].rows) > 0 /\ Len(audit) > 0
    /\ Answer(req[p]) = 404

\* C5 (as claimed): with requests handled one at a time, every mutation
\* answered with success appended exactly one audit entry, whose sequence
\* number is the length of the audit log before the append, plus 1.
C5_OneAuditEntryNextSeq ==
  \A p \in Procs :
    (req[p].kind \in Mutations /\ req[p].pc = "done" /\ Success(req[p])) =>
      /\ req[p].nAudit = 1
      /\ audit[req[p].auditAtAppend + 1][1] = req[p].auditAtAppend + 1

\* C6 (as claimed): after a soft-delete succeeded, the status cell (column J)
\* of the row holds the inactive marker, which is what a list shows, and
\* every other cell and every other row is as it was before.
C6_SoftDeleteMarksStatus ==
  \A p \in Procs :
    (Finished(p, "delete") /\ Success(req[p])) =>
      /\ records[req[p].rowIndex + 1][10] = InactiveMarker
      /\ records = [req[p].rows EXCEPT ![req[p].rowIndex + 1][10] = InactiveMarker]
      /\ ListData(records) =
           ListData([req[p].rows EXCEPT ![req[p].rowIndex + 1][10] = InactiveMarker])

\* C7: with requests handled one at a time, after an update succeeded the
\* row of the record holds the requested id, its status cell (column J, the
\* cell a list projects) holds "active" and no cell of it holds the inactive
\* marker, whatever the row held before.
C7_UpdateReactivates ==
  \A p \in Procs :
    (Finished(p, "update") /\ Success(req[p])) =>
      LET row == records[req[p].rowIndex + 1]
      IN /\ IdCell(row) = req[p].id
         /\ row[10] = "active"
         /\ ListData(records)[req[p].rowIndex + 1].lastUpdated = "active"
         /\ \A c \in 2..Len(row) : row[c] # InactiveMarker

\* C7 witness: create, soft-delete, then update of the same record
C7_Witness ==
  \E p \in Procs :
    /\ Finished(p, "update") /\ Success(req[p])
    /\ req[p].wasInactive
    /\ req[p].rowIndex = 0 /\ req[p].id = "1"

\* C8 (as claimed): a login with a verified identity whose e-mail is in no
\* users row appends a row with the name, the assertion, the session
\* credential and role "user", appends one LOGIN entry and answers 200.
C8_NewUserAppended ==
  \A p \in Procs :
    (Finished(p, "login") /\ req[p].readOk /\ req[p].absent) =>
      /\ Success(req[p])
      /\ req[p].nAudit = 1
      /\ \E i \in 1..Len(users) :
           users[i] = <<req[p].user.name, req[p].token, req[p].sessionToken, "user">>

UsersUnique(rows) ==
  \A i, j \in 1..Len(rows) : rows[i][3] = rows[j][3] => i = j

\* C9: no step of any login breaks "at most one row per e-mail" or adds a
\* users row, and a login of a known e-mail writes the row that holds it.
C9_OneRowPerEmail ==
  [][/\ UsersUnique(users) => UsersUnique(users')
     /\ Len(users') <= Len(users)
     /\ \A p \in Procs :
          (req'[p].kind = "login" /\ req'[p].nWrites = 1) =>
            users'[req'[p].rowIndex + 1][3] = req'[p].user.email]_vars

\* C9 witness: a second login of an e-mail, after an earlier login wrote its
\* row, succeeded and the table still has its two rows
C9_Witness ==
  \E p \in Procs :
    /\ Finished(p, "login") /\ Success(req[p])
    /\ req[p].repeatLogin
    /\ users[req[p].rowIndex + 1][5] = req[p].sessionToken
    /\ Len(users) = 2

\* C10: a login or a mutation has a success status only after its audit
\* append succeeded; when the append failed or was never made, the finished
\* request has a failure status.
C10_NoSuccessWithoutAudit ==
  \A p \in Procs :
    req[p].kind \in Mutations \cup {"login"} =>
      /\ req[p].status \in {200, 201} => req[p].nAudit = 1
      /\ (req[p].pc = "done" /\ req[p].nAudit = 0) =>
           Answer(req[p]) \in {401, 404, 500}

\* C10 witness: a create whose row was appended and whose audit append
\* failed, answered 500
C10_Witness ==
  \E p \in Procs :
    /\ Finished(p, "create") /\ req[p].nWrites = 1 /\ req[p].nAudit = 0
    /\ req[p].logRowNumber > 0
    /\ Answer(req[p]) = 500

\* C11 (as claimed): a request one of whose backend calls failed ends with
\* a failure status and makes no backend write after the failed call.
C11_FailureEndsRequest ==
  \A p \in Procs :
    req[p].failed =>
      /\ req[p].lateWrites = 0
      /\ req[p].pc = "done" => Answer(req[p]) \in {401, 500}

\* C12 (as claimed): a login whose backend call failed is answered 500, and
\* a login is answered 401 only when the assertion was not verified.
C12_LoginBackend500 ==
  \A p \in Procs :
    Finished(p, "login") =>
      /\ req[p].failed => Answer(req[p]) = 500
      /\ Answer(req[p]) = 401 => req[p].token \notin Tokens

\* C13: under any interleaving no step removes or changes an entry of the
\* audit table, and the number of entries never decreases.
C13_AuditAppendOnly ==
  [][/\ Len(audit') >= Len(audit)
     /\ SubSeq(audit', 1, Len(audit)) = audit]_vars

\* C13 witness: two requests appended their entries with the same sequence
\* number, and both entries are in the table
C13_Witness ==
  /\ Len(audit) = 2
  /\ audit[1][1] = audit[2][1]
  /\ \A p \in Procs : req[p].pc = "done" /\ req[p].nAudit = 1

\* C14 (as claimed): after a create answered 201, the list holds a record
\* with the payload's eight fields, the id the create returned and, as
\* lastUpdated, the timestamp the create wrote.
C14_CreateListRoundTrip ==
  \A p \in Procs :
    (Finished(p, "create") /\ Answer(req[p]) = 201) =>
      LET item == ListData(records)[req[p].rowIndex + 1]
          d == req[p].body
      IN /\ item.id = Str(req[p].newRowNumber)
         /\ item.fullName = d.fullName /\ item.populationId = d.populationId
         /\ item.familyId = d.familyId /\ item.gender = d.gender
         /\ item.dateOfBirth = d.dateOfBirth /\ item.placeOfBirth = d.placeOfBirth
         /\ item.religion = d.religion /\ item.bloodType = d.bloodType
         /\ item.lastUpdated = records[req[p].rowIndex + 1][11]
         /\ item.lastUpdated # "active"

\* C15: two creates whose scans of the id column both returned and saw the
\* same table write the same id into two different rows.
C15_RacingCreatesShareId ==
  \A p, q \in Procs :
    (/\ p # q
     /\ req[p].kind = "create" /\ req[q].kind = "create"
     /\ req[p].readOk /\ req[q].readOk
     /\ req[p].nWrites = 1 /\ req[q].nWrites = 1
     /\ req[p].rowsAtScan = req[q].rowsAtScan) =>
      /\ req[p].rowIndex # req[q].rowIndex
      /\ records[req[p].rowIndex + 1][1] = records[req[q].rowIndex + 1][1]

\* C15 witness: two concurrent creates, every backend call succeeding, both
\* answered 201; their rows hold the same id and their audit entries the
\* same sequence number
C15_Witness ==
  /\ \A p \in Procs :
       Finished(p, "create") /\ ~req[p].failed /\ Answer(req[p]) = 201
  /\ Len(records) = 2 /\ records[1][1] = records[2][1]
  /\ Len(audit) = 2 /\ audit[1][1] = audit[2][1]

\* C16: with requests handled one at a time, a mutation whose primary write
\* succeeded and whose audit append failed leaves that write in the records
\* table and answers 500 (the status the client of an admitted request
\* receives).
C16_AuditFailureKeepsWrite ==
  \A p \in Procs :
    (/\ req[p].kind \in Mutations /\ req[p].pc = "done"
     /\ req[p].nWrites = 1 /\ req[p].nAudit = 0) =>
      /\ req[p].status = 500
      /\ req[p].mwSent = 0 => Answer(req[p]) = 500
      /\ Len(records) > req[p].rowIndex
      /\ LET row == records[req[p].rowIndex + 1]
         IN CASE req[p].kind = "create" ->
                   row[1] = req[p].newRowNumber /\ row[2] = req[p].body.fullName
              [] req[p].kind = "update" ->
                   row[2] = req[p].body.fullName /\ row[10] = "active"
              [] OTHER -> row[11] = InactiveMarker

\* C16 witness: an update that overwrote its row, then failed to append its
\* audit entry
C16_Witness ==
  \E p \in Procs :
    /\ Finished(p, "update") /\ req[p].nWrites = 1 /\ req[p].nAudit = 0
    /\ req[p].rows[req[p].rowIndex + 1][2] # req[p].body.fullName
    /\ Answer(req[p]) = 500

\* C17: under any interleaving no step removes a row of the records table
\* or changes the id cell of a row, and the row an update or soft-delete is
\* about to overwrite holds the requested id.
C17_RowsKeepIdentity ==
  [][/\ Len(records') >= Len(records)
     /\ \A i \in 1..Len(records) : records'[i][1] = records[i][1]
     /\ \A p \in Procs :
          (req[p].kind \in {"update", "delete"} /\ req[p].pc = "write") =>
            IdCell(records[req[p].rowIndex + 1]) = req[p].id]_vars

\* C17 witness: an update overwrote a row and the row holds the id it had
C17_Witness ==
  \E p \in Procs :
    /\ req[p].kind = "update" /\ req[p].nWrites = 1
    /\ records[req[p].rowIndex + 1][2] = req[p].body.fullName
    /\ IdCell(records[req[p].rowIndex + 1]) = req[p].id

\* C18 (as claimed): after two concurrent logins of two known users both
\* succeeded, each user's row holds the name, the assertion and the session
\* credential its own login wrote.
C18_LoginsIndependent ==
  \A p, q \in Procs :
    (/\ Finished(p, "login") /\ Finished(q, "login")
     /\ Success(req[p]) /\ Success(req[q])
     /\ req[p].user.email # req[q].user.email) =>
      LET row == users[req[p].rowIndex + 1]
      IN /\ row[2] = req[p].user.name
         /\ row[4] = req[p].token
         /\ row[5] = req[p].sessionToken

====
